---------------------------- MODULE Spec2Model ----------------------------
(***************************************************************************)
(* Model of the MKV -> MP4 remuxer (src/code.py): the ffprobe queries, the *)
(* construction of the ffmpeg command line, and remux_with_progress, which *)
(* launches ffmpeg, reads its progress lines, prints a percentage and      *)
(* forwards the exit code.                                                 *)
(*                                                                         *)
(* Text is modelled as sequences of one-character strings, so that the     *)
(* regular expressions, str.lower, str.strip, str.split, int() and float() *)
(* are computed character by character.  Python floats are modelled as     *)
(* IEEE 754 binary64 numbers, every operation rounded to nearest, ties to  *)
(* even, on integers of any size kept as sequences of limbs.               *)
(***************************************************************************)
EXTENDS Integers, Sequences, FiniteSets, TLC

VARIABLES
    pc,             \* position of the script in remux_with_progress
    dur_out,        \* the duration query: [ok, text], ok false when ffprobe failed
    total_duration, \* total_duration (a float), NoNumber before it is known
    acodec,         \* acodec, <<>> before it is known
    vcodec,         \* vcodec, <<>> before it is known
    cmd,            \* cmd, the argv list; <<>> before it is built
    engine,         \* the ffmpeg child: "none", "running", "exited"
    exit_code,      \* the exit code of the child, NoCode while it runs
    returncode,     \* proc.returncode, NoCode until proc.wait() returns
    written,        \* every line the child has written to the pipe so far
    nread,          \* how many of them the for loop has taken
    done_seconds,   \* done_seconds of the loop, NoNumber before it is assigned
    pct,            \* pct of the loop, NoNumber before it is assigned
    last_pct,       \* last_pct
    emitted,        \* the progress updates printed so far: [pct, whole, line]
    probed,         \* the ffprobe queries that have returned to the script
    fault,          \* the exception that ended the run, "none" otherwise
    result          \* what the run reported at its end, NoResult before

vars == <<pc, dur_out, total_duration, acodec, vcodec, cmd, engine, exit_code,
          returncode, written, nread, done_seconds, pct, last_pct, emitted,
          probed, fault, result>>

\* Python's None, for a number, an exit code and the run's result
NoNumber == [m |-> <<>>, e |-> 0 - 1]
NoCode == 0 - 1
NoResult == [status |-> "none", path |-> "", exitCode |-> NoCode]

(***************************************************************************)
(* Bounds of the model.                                                    *)
(***************************************************************************)
MaxLines == 3
PipeCapacity == 2
MaxExitCode == 1

(***************************************************************************)
(* Characters and text.                                                    *)
(***************************************************************************)
DigitChars == <<"0", "1", "2", "3", "4", "5", "6", "7", "8", "9">>
Digits == {DigitChars[i] : i \in 1..10}
DigitVal(c) == (CHOOSE i \in 1..10 : DigitChars[i] = c) - 1

UpperChars == <<"A", "B", "C", "D", "E", "F", "G", "H", "I", "J", "K", "L", "M",
                "N", "O", "P", "Q", "R", "S", "T", "U", "V", "W", "X", "Y", "Z">>
LowerChars == <<"a", "b", "c", "d", "e", "f", "g", "h", "i", "j", "k", "l", "m",
                "n", "o", "p", "q", "r", "s", "t", "u", "v", "w", "x", "y", "z">>
Whitespace == {" ", "\n", "\t", "\r"}

LowerChar(c) ==
    IF \E i \in 1..26 : UpperChars[i] = c
    THEN LowerChars[CHOOSE i \in 1..26 : UpperChars[i] = c]
    ELSE c

\* str.lower()
Lower(s) == [i \in 1..Len(s) |-> LowerChar(s[i])]

RECURSIVE StripLeft(_)
StripLeft(s) ==
    IF s # <<>> /\ Head(s) \in Whitespace THEN StripLeft(Tail(s)) ELSE s

RECURSIVE StripRight(_)
StripRight(s) ==
    IF s # <<>> /\ s[Len(s)] \in Whitespace
    THEN StripRight(SubSeq(s, 1, Len(s) - 1))
    ELSE s

\* str.strip()
Strip(s) == StripRight(StripLeft(s))

RECURSIVE SplitColon(_)
\* str.split(":"): one field more than there are colons
SplitColon(s) ==
    IF \A i \in 1..Len(s) : s[i] # ":"
    THEN <<s>>
    ELSE LET k == CHOOSE i \in 1..Len(s) :
                      s[i] = ":" /\ \A j \in 1..(i - 1) : s[j] # ":"
         IN  <<SubSeq(s, 1, k - 1)>> \o SplitColon(SubSeq(s, k + 1, Len(s)))

(***************************************************************************)
(* Integers of any size, as Python's int: sequences of limbs, the least    *)
(* significant first, without leading zero limbs.                          *)
(***************************************************************************)
LimbBits == 15
Base == 2 ^ LimbBits

Limb(a, i) == IF i <= Len(a) THEN a[i] ELSE 0

RECURSIVE BNorm(_)
BNorm(a) ==
    IF a # <<>> /\ a[Len(a)] = 0 THEN BNorm(SubSeq(a, 1, Len(a) - 1)) ELSE a

RECURSIVE BFromInt(_)
BFromInt(n) == IF n = 0 THEN <<>> ELSE <<n % Base>> \o BFromInt(n \div Base)

RECURSIVE BToInt(_)
BToInt(a) == IF a = <<>> THEN 0 ELSE a[1] + Base * BToInt(Tail(a))

RECURSIVE BAddC(_, _, _, _)
BAddC(a, b, i, c) ==
    IF i > Len(a) /\ i > Len(b)
    THEN IF c = 0 THEN <<>> ELSE <<c>>
    ELSE LET s == Limb(a, i) + Limb(b, i) + c
         IN  <<s % Base>> \o BAddC(a, b, i + 1, s \div Base)

BAdd(a, b) == BAddC(a, b, 1, 0)

RECURSIVE BSubC(_, _, _, _)
BSubC(a, b, i, c) ==
    IF i > Len(a) THEN <<>>
    ELSE LET s == Limb(a, i) - Limb(b, i) - c
         IN  <<s % Base>> \o BSubC(a, b, i + 1, IF s < 0 THEN 1 ELSE 0)

\* a - b, for a >= b
BSub(a, b) == BNorm(BSubC(a, b, 1, 0))

\* -1, 0, 1 as a is less than, equal to, greater than b
BCmp(a, b) ==
    IF Len(a) # Len(b) THEN (IF Len(a) < Len(b) THEN -1 ELSE 1)
    ELSE LET diff == {i \in 1..Len(a) : a[i] # b[i]}
         IN  IF diff = {} THEN 0
             ELSE LET k == CHOOSE i \in diff : \A j \in diff : j <= i
                  IN  IF a[k] < b[k] THEN -1 ELSE 1

RECURSIVE BMulSmallC(_, _, _, _)
BMulSmallC(a, k, i, c) ==
    IF i > Len(a)
    THEN IF c = 0 THEN <<>> ELSE <<c>>
    ELSE LET s == a[i] * k + c
         IN  <<s % Base>> \o BMulSmallC(a, k, i + 1, s \div Base)

\* a * k, for 0 <= k < Base
BMulSmall(a, k) == BNorm(BMulSmallC(a, k, 1, 0))

BShiftLimbs(a, n) == IF a = <<>> THEN <<>> ELSE [i \in 1..n |-> 0] \o a

RECURSIVE BMul(_, _)
BMul(a, b) ==
    IF b = <<>> THEN <<>>
    ELSE BAdd(BMulSmall(a, b[1]), BShiftLimbs(BMul(a, Tail(b)), 1))

\* a * 2^k
BShl(a, k) == BShiftLimbs(BMulSmall(a, 2 ^ (k % LimbBits)), k \div LimbBits)

\* a \div 2
BHalf(a) ==
    BNorm([i \in 1..Len(a) |-> (a[i] \div 2) + (Limb(a, i + 1) % 2) * (Base \div 2)])

BitLenSmall(x) == CHOOSE n \in 1..LimbBits : 2 ^ (n - 1) <= x /\ x < 2 ^ n
BBitLen(a) ==
    IF a = <<>> THEN 0 ELSE LimbBits * (Len(a) - 1) + BitLenSmall(a[Len(a)])

BIsOdd(a) == a # <<>> /\ a[1] % 2 = 1

\* The quotient of the two top limbs of r by the top limb of d, Base - 1 at
\* most: for r < d * Base and d with its top limb at least Base / 2, it is
\* the greatest g with d * g <= r, or 1 or 2 more
BDigitEstimate(r, d) ==
    LET top == Limb(r, Len(d) + 1) * Base + Limb(r, Len(d))
    IN  IF top \div d[Len(d)] >= Base THEN Base - 1 ELSE top \div d[Len(d)]

BFits(d, g, r) == BCmp(BMulSmall(d, g), r) <= 0

BDigitFrom(r, d, est) ==
    IF BFits(d, est, r) THEN est
    ELSE IF BFits(d, est - 1, r) THEN est - 1 ELSE est - 2

\* The greatest g with d * g <= r
BDigit(r, d) == BDigitFrom(r, d, BDigitEstimate(r, d))

RECURSIVE BDivModC(_, _, _, _, _)
\* The digit g of the quotient is settled, with the remainder r1 before it
BDivModStep(n, d, i, q, r1, g) ==
    IF g = 0
    THEN BDivModC(n, d, i - 1, Append(q, 0), r1)
    ELSE BDivModC(n, d, i - 1, Append(q, g), BSub(r1, BMulSmall(d, g)))

BDivModLimb(n, d, i, q, r1) == BDivModStep(n, d, i, q, r1, BDigit(r1, d))

\* long division of the limbs i, i-1, ..., 1 of n by d, with the quotient q
\* so far (most significant limb first) and the remainder r carried in
BDivModC(n, d, i, q, r) ==
    IF i = 0 THEN [q |-> q, r |-> r]
    ELSE BDivModLimb(n, d, i, q, BNorm(<<n[i]>> \o r))

Reverse(s) == [i \in 1..Len(s) |-> s[Len(s) + 1 - i]]

BQuotient(x, d) == [q |-> BNorm(Reverse(x.q)), r |-> x.r, d |-> d]

BDivModNormal(n, d) == BQuotient(BDivModC(n, d, Len(n), <<>>, <<>>), d)

BDivModShifted(n, d, s) == BDivModNormal(BShl(n, s), BShl(d, s))

\* quotient and remainder of n by d, for d > 0: both are scaled by 2^s to
\* bring the top limb of d to Base / 2 or more, which scales the remainder
BDivModScaled(n, d) == BDivModShifted(n, d, LimbBits - BitLenSmall(d[Len(d)]))

RECURSIVE BPow10(_)
BPow10(k) == IF k = 0 THEN <<1>> ELSE BMulSmall(BPow10(k - 1), 10)

RECURSIVE DigitsToInt(_)
\* int() of a string of decimal digits
DigitsToInt(s) ==
    IF s = <<>> THEN <<>>
    ELSE BAdd(BMulSmall(DigitsToInt(SubSeq(s, 1, Len(s) - 1)), 10),
              BFromInt(DigitVal(s[Len(s)])))

(***************************************************************************)
(* Python's float: the binary64 numbers that are zero or positive and      *)
(* normal, m * 2^e with 2^52 <= m < 2^53, and FZero for 0.0.               *)
(***************************************************************************)
Precision == 53
FZero == [m |-> <<>>, e |-> 0]
BOne == <<1>>

\* m * 2^e, for m of Precision bits, or of one more and even
Renormal(m, e) ==
    IF BBitLen(m) = Precision + 1
    THEN [m |-> BHalf(m), e |-> e + 1]
    ELSE [m |-> m, e |-> e]

Rounded(m, up, e) == IF up THEN Renormal(BAdd(m, BOne), e) ELSE [m |-> m, e |-> e]

\* The float nearest to (x.q + x.r / x.d) * 2^e, ties to even, for x.q of
\* Precision bits or one more: then the last bit goes to the remainder
RoundQuotient(x, e) ==
    IF BBitLen(x.q) = Precision + 1
    THEN Rounded(BHalf(x.q),
                 BIsOdd(x.q) /\ (x.r # <<>> \/ BIsOdd(BHalf(x.q))),
                 e + 1)
    ELSE Rounded(x.q,
                 \/ BCmp(BMulSmall(x.r, 2), x.d) > 0
                 \/ BCmp(BMulSmall(x.r, 2), x.d) = 0 /\ BIsOdd(x.q),
                 e)

RoundScaled(p, q, e, k) ==
    RoundQuotient(BDivModScaled(IF k >= 0 THEN BShl(p, k) ELSE p,
                                IF k >= 0 THEN q ELSE BShl(q, 0 - k)),
                  e - k)

\* The float nearest to (p / q) * 2^e, ties to even
RoundRatio(p, q, e) ==
    IF p = <<>> THEN FZero
    ELSE RoundScaled(p, q, e, Precision - (BBitLen(p) - BBitLen(q)))

\* float(n) of an int, a / b, a * b and a + b of floats
FloatOfInt(n) == RoundRatio(BFromInt(n), BOne, 0)
FDiv(a, b) == RoundRatio(a.m, b.m, a.e - b.e)
FMul(a, b) == RoundRatio(BMul(a.m, b.m), BOne, a.e + b.e)
FAdd(a, b) ==
    LET lo == IF a.e < b.e THEN a.e ELSE b.e
    IN  RoundRatio(BAdd(BShl(a.m, a.e - lo), BShl(b.m, b.e - lo)), BOne, lo)

\* -1, 0, 1 as a is less than, equal to, greater than b
FCmp(a, b) ==
    LET lo == IF a.e < b.e THEN a.e ELSE b.e
    IN  BCmp(BShl(a.m, a.e - lo), BShl(b.m, b.e - lo))

\* min(a, b) of Python: b only when b < a
FMin(a, b) == IF FCmp(b, a) < 0 THEN b ELSE a

\* int(a): truncation, for a < 2^31
Trunc(a) ==
    IF a.e >= 0 THEN BToInt(BShl(a.m, a.e))
    ELSE BToInt(BDivModScaled(a.m, BShl(BOne, 0 - a.e)).q)

\* Whether float() accepts s, for s free of signs, exponents and letters that
\* spell inf or nan: digits with at most one point and at least one digit.
IsFloatLiteral(s) ==
    /\ \A i \in 1..Len(s) : s[i] \in Digits \cup {"."}
    /\ Cardinality({i \in 1..Len(s) : s[i] = "."}) <= 1
    /\ \E i \in 1..Len(s) : s[i] \in Digits

\* float(s) for an accepted s: the float nearest to the decimal
FloatValue(s) ==
    LET dots == {i \in 1..Len(s) : s[i] = "."}
        p    == IF dots = {} THEN Len(s) + 1 ELSE CHOOSE i \in dots : TRUE
        ip   == SubSeq(s, 1, p - 1)
        fp   == SubSeq(s, p + 1, Len(s))
    IN  RoundRatio(DigitsToInt(ip \o fp), BPow10(Len(fp)), 0)

(***************************************************************************)
(* re.search for a pattern of the shape  literal(class+) : the leftmost    *)
(* place where the literal is followed by at least one character of the    *)
(* class; the group is the longest run of class characters from there.     *)
(***************************************************************************)
NoMatch == [found |-> FALSE, group |-> <<>>]

RECURSIVE ClassRun(_, _, _)
ClassRun(line, j, class) ==
    IF j <= Len(line) /\ line[j] \in class
    THEN <<line[j]>> \o ClassRun(line, j + 1, class)
    ELSE <<>>

MatchesAt(line, i, pat) ==
    /\ i + Len(pat.literal) <= Len(line)
    /\ SubSeq(line, i, i + Len(pat.literal) - 1) = pat.literal
    /\ line[i + Len(pat.literal)] \in pat.class

Search(pat, line) ==
    IF \E i \in 1..Len(line) : MatchesAt(line, i, pat)
    THEN LET k == CHOOSE i \in 1..Len(line) :
                      /\ MatchesAt(line, i, pat)
                      /\ \A j \in 1..(i - 1) : ~MatchesAt(line, j, pat)
         IN  [found |-> TRUE,
              group |-> ClassRun(line, k + Len(pat.literal), pat.class)]
    ELSE NoMatch

KeyUs == <<"o", "u", "t", "_", "t", "i", "m", "e", "_", "m", "s", "=">>
KeyHms == <<"o", "u", "t", "_", "t", "i", "m", "e", "=">>

\* re.compile(r"out_time_ms=(\d+)")
re_us == [literal |-> KeyUs, class |-> Digits]
\* re.compile(r"out_time=([\d:.]+)")
re_hms == [literal |-> KeyHms, class |-> Digits \cup {":", "."}]

(***************************************************************************)
(* What the external tools can print.                                      *)
(***************************************************************************)
Micro == <<".", "0", "0", "0", "0", "0", "0">>
\* ffprobe's answers to the duration query: 10 s, 93 s, 0 s, N/A, nothing
DurationOutputs ==
    { <<"1", "0">> \o Micro \o <<"\n">>,
      <<"9", "3">> \o Micro \o <<"\n">>,
      <<"0">> \o Micro \o <<"\n">>,
      <<"N", "/", "A", "\n">>,
      <<>> }

\* ffprobe's answers to the codec queries of a run
AudioOutputs == { <<"d", "t", "s", "\n">>, <<>> }
VideoOutputs == { <<"h", "e", "v", "c", "\n">> }

SrcPath == "movie.mkv"
\* os.path.splitext(src)[0] + ".mp4"
DstPath == "movie.mp4"

(***************************************************************************)
(* The Metadata Prober.                                                    *)
(***************************************************************************)
\* ffprobe_field: the stripped output of the query
ffprobe_field(out) == Strip(out)

\* get_duration as it would be with 0.0 standing in for an unparsable answer
get_duration_or_zero(out) ==
    LET s == Strip(out)
    IN  [ok |-> TRUE, value |-> IF IsFloatLiteral(s) THEN FloatValue(s) ELSE FZero]

\* get_duration: float() of the stripped output; float() raises ValueError
get_duration(out) ==
    LET s == Strip(out)
    IN  IF IsFloatLiteral(s)
        THEN [ok |-> TRUE, value |-> FloatValue(s)]
        ELSE [ok |-> FALSE, value |-> NoNumber]

(***************************************************************************)
(* The Plan Builder.                                                       *)
(***************************************************************************)
Dts == <<"d", "t", "s">>
Hevc == <<"h", "e", "v", "c">>
H265 == <<"h", "2", "6", "5">>

\* audio_args as it would be without .lower()
audio_args_exact(a) == IF a = Dts THEN <<"-c:a", "alac">> ELSE <<"-c:a", "copy">>

audio_args(a) == IF Lower(a) = Dts THEN <<"-c:a", "alac">> ELSE <<"-c:a", "copy">>

\* tag_args as it would be with "hevc" as the only tagged name
tag_args_hevc_only(v) == IF Lower(v) = Hevc THEN <<"-tag:v", "hvc1">> ELSE <<>>

tag_args(v) == IF Lower(v) \in {Hevc, H265} THEN <<"-tag:v", "hvc1">> ELSE <<>>

build_ffmpeg_cmd(src, dst, a, v) ==
    <<"ffmpeg", "-y", "-i", src, "-c:v", "copy">>
        \o audio_args(a)
        \o <<"-movflags", "+faststart">>
        \o tag_args(v)
        \o <<"-progress", "pipe:1", "-nostats", dst>>

(***************************************************************************)
(* The progress stream of the engine: key=value lines, the elapsed time as *)
(* out_time_ms=<microseconds> and as out_time=HH:MM:SS.ffffff.             *)
(***************************************************************************)
RECURSIVE IntToDigits(_, _)
\* n in decimal, zero-padded to at least width digits
IntToDigits(n, width) ==
    IF n < 10 /\ width <= 1
    THEN <<DigitChars[n + 1]>>
    ELSE IntToDigits(n \div 10, width - 1) \o <<DigitChars[(n % 10) + 1]>>

FormatUs(t) == KeyUs \o IntToDigits(t, 1)

FormatHms(t) ==
    LET secs == t \div 1000000
    IN  KeyHms \o IntToDigits(secs \div 3600, 2) \o <<":">>
               \o IntToDigits((secs % 3600) \div 60, 2) \o <<":">>
               \o IntToDigits(secs % 60, 2) \o <<".">>
               \o IntToDigits(t % 1000000, 6)

\* Elapsed times, in microseconds, that the engine reports in a run
Instants == {0, 5000000, 5050000, 12000000, 72540000, 125000001}

LineUs5 == FormatUs(5000000) \o <<"\n">>
LineHms5 == FormatHms(5000000) \o <<"\n">>
LineUs72 == FormatUs(72540000) \o <<"\n">>
LineHms72 == FormatHms(72540000) \o <<"\n">>
LineHms12 == FormatHms(12000000) \o <<"\n">>
\* out_time=00:05 : a timestamp of two fields
LineTwoFields == KeyHms \o <<"0", "0", ":", "0", "5", "\n">>
\* a line with both keys: 5 s as a timestamp, 5.05 s in microseconds
LineBoth == FormatHms(5000000) \o <<" ">> \o FormatUs(5050000) \o <<"\n">>
\* progress=continue
LineOther == <<"p", "r", "o", "g", "r", "e", "s", "s", "=",
               "c", "o", "n", "t", "i", "n", "u", "e", "\n">>

EngineLines ==
    {LineUs5, LineHms5, LineUs72, LineHms72, LineHms12, LineTwoFields, LineBoth,
     LineOther}

(***************************************************************************)
(* The Progress Parser: the body of the for loop for one line.             *)
(***************************************************************************)
\* h, m_, s = map(float, group.split(":")): ValueError unless there are
\* exactly three fields and float() accepts each
HmsFieldsOk(group) ==
    LET f == SplitColon(group)
    IN  Len(f) = 3 /\ \A i \in 1..3 : IsFloatLiteral(f[i])

\* h * 3600 + m_ * 60 + s
HmsSeconds(group) ==
    LET f == SplitColon(group)
    IN  FAdd(FAdd(FMul(FloatValue(f[1]), FloatOfInt(3600)),
                  FMul(FloatValue(f[2]), FloatOfInt(60))),
             FloatValue(f[3]))

\* int(m.group(1)) / 1_000_000
UsSeconds(group) == RoundRatio(DigitsToInt(group), BFromInt(1000000), 0)

\* done_seconds for a line: "ok" with its value, "skip" for an unrelated
\* line (continue), "ValueError" when the conversion raises
Elapsed(line) ==
    LET mu == Search(re_us, line)
        mh == Search(re_hms, line)
    IN  IF mu.found
        THEN [kind |-> "ok", secs |-> UsSeconds(mu.group)]
        ELSE IF mh.found
        THEN IF HmsFieldsOk(mh.group)
             THEN [kind |-> "ok", secs |-> HmsSeconds(mh.group)]
             ELSE [kind |-> "ValueError", secs |-> NoNumber]
        ELSE [kind |-> "skip", secs |-> NoNumber]

\* Percent as it would be without the min
PercentUnclamped(secs, total) == FMul(FDiv(secs, total), FloatOfInt(100))

Hundred == FloatOfInt(100)

\* min(done_seconds / total_duration * 100, 100), for total_duration # 0
Percent(secs, total) == FMin(FMul(FDiv(secs, total), Hundred), Hundred)

\* pct and int(pct) of an iteration that has computed done_seconds
LoopPercent(secs, p) == [kind |-> "ok", secs |-> secs, pct |-> p, whole |-> Trunc(p)]

\* The rest of the loop body for the outcome e of the conversion of a line:
\* a float divided by 0.0 raises ZeroDivisionError
LoopRest(e, total) ==
    IF e.kind # "ok"
    THEN [kind |-> e.kind, secs |-> NoNumber, pct |-> NoNumber, whole |-> 0 - 1]
    ELSE IF total = FZero
    THEN [kind |-> "ZeroDivisionError", secs |-> e.secs, pct |-> NoNumber,
          whole |-> 0 - 1]
    ELSE LoopPercent(e.secs, Percent(e.secs, total))

\* The loop body up to the test of last_pct: what it raises, done_seconds,
\* pct and int(pct)
LoopBody(line, total) == LoopRest(Elapsed(line), total)

\* The values total_duration can have in a run
TotalDurations ==
    {get_duration(out).value : out \in {o \in DurationOutputs : get_duration(o).ok}}

\* LoopBody on every line and duration of a run, worked out once
LoopBodyOf == [l \in EngineLines, d \in TotalDurations |-> LoopBody(l, d)]

\* Iteration as it would be printing every percent it computes
IterationNoThrottle(line, total, last) ==
    LET b == LoopBodyOf[line, total]
    IN  [kind |-> b.kind, secs |-> b.secs, pct |-> b.pct, whole |-> b.whole,
         update |-> b.kind = "ok"]

\* The outcome of one iteration: the loop body, and whether it prints
Iteration(line, total, last) ==
    LET b == LoopBodyOf[line, total]
    IN  [kind |-> b.kind, secs |-> b.secs, pct |-> b.pct, whole |-> b.whole,
         update |-> b.kind = "ok" /\ b.whole # last]

(***************************************************************************)
(* The state after construction and the steps of a run.                    *)
(***************************************************************************)
Init ==
    /\ pc = "get_duration"
    /\ dur_out = [ok |-> TRUE, text |-> <<>>]
    /\ total_duration = NoNumber
    /\ acodec = <<>>
    /\ vcodec = <<>>
    /\ cmd = <<>>
    /\ engine = "none"
    /\ exit_code = NoCode
    /\ returncode = NoCode
    /\ written = <<>>
    /\ nread = 0
    /\ done_seconds = NoNumber
    /\ pct = NoNumber
    /\ last_pct = -1
    /\ emitted = <<>>
    /\ probed = {}
    /\ fault = "none"
    /\ result = NoResult

\* An exception leaves remux_with_progress: the run ends with a traceback
Raise(e) == pc' = "crashed" /\ fault' = e

\* total_duration = get_duration(src)
GetDuration ==
    /\ pc = "get_duration"
    /\ \E out \in [ok : {TRUE}, text : DurationOutputs]
                  \cup {[ok |-> FALSE, text |-> <<>>]} :
        /\ dur_out' = out
        /\ IF ~out.ok
           THEN Raise("CalledProcessError") /\ UNCHANGED <<total_duration, probed>>
           ELSE IF ~get_duration(out.text).ok
           THEN Raise("ValueError") /\ UNCHANGED <<total_duration, probed>>
           ELSE /\ total_duration' = get_duration(out.text).value
                /\ probed' = probed \cup {"duration"}
                /\ pc' = "detect_audio"
                /\ UNCHANGED fault
    /\ UNCHANGED <<acodec, vcodec, cmd, engine, exit_code, returncode, written,
                   nread, done_seconds, pct, last_pct, emitted, result>>

\* acodec = detect_audio_codec(src), with the answers of the set outs
DetectAudio(outs) ==
    /\ pc = "detect_audio"
    /\ \/ \E out \in outs :
            /\ acodec' = ffprobe_field(out)
            /\ probed' = probed \cup {"audio"}
            /\ pc' = "detect_video"
            /\ UNCHANGED fault
       \/ Raise("CalledProcessError") /\ UNCHANGED <<acodec, probed>>
    /\ UNCHANGED <<dur_out, total_duration, vcodec, cmd, engine, exit_code,
                   returncode, written, nread, done_seconds, pct, last_pct,
                   emitted, result>>

\* vcodec = detect_video_codec(src), with the answers of the set outs
DetectVideo(outs) ==
    /\ pc = "detect_video"
    /\ \/ \E out \in outs :
            /\ vcodec' = ffprobe_field(out)
            /\ probed' = probed \cup {"video"}
            /\ pc' = "build"
            /\ UNCHANGED fault
       \/ Raise("CalledProcessError") /\ UNCHANGED <<vcodec, probed>>
    /\ UNCHANGED <<dur_out, total_duration, acodec, cmd, engine, exit_code,
                   returncode, written, nread, done_seconds, pct, last_pct,
                   emitted, result>>

\* cmd = build_ffmpeg_cmd(src, dst, acodec, vcodec)
Build ==
    /\ pc = "build"
    /\ cmd' = build_ffmpeg_cmd(SrcPath, DstPath, acodec, vcodec)
    /\ pc' = "popen"
    /\ UNCHANGED <<dur_out, total_duration, acodec, vcodec, engine, exit_code,
                   returncode, written, nread, done_seconds, pct, last_pct,
                   emitted, probed, fault, result>>

\* proc = subprocess.Popen(cmd, ...): the child starts, or ffmpeg is missing
Popen ==
    /\ pc = "popen"
    /\ \/ engine' = "running" /\ pc' = "loop" /\ UNCHANGED fault
       \/ Raise("FileNotFoundError") /\ UNCHANGED engine
    /\ UNCHANGED <<dur_out, total_duration, acodec, vcodec, cmd, exit_code,
                   returncode, written, nread, done_seconds, pct, last_pct,
                   emitted, probed, result>>

\* The child writes a line; it blocks while the pipe is full, and it cannot
\* write once the reading end is gone
EngineWrite ==
    /\ engine = "running"
    /\ pc = "loop"
    /\ Len(written) < MaxLines
    /\ Len(written) - nread < PipeCapacity
    /\ \E line \in EngineLines : written' = Append(written, line)
    /\ UNCHANGED <<pc, dur_out, total_duration, acodec, vcodec, cmd, engine,
                   exit_code, returncode, nread, done_seconds, pct, last_pct,
                   emitted, probed, fault, result>>

\* The child terminates, which closes its end of the pipe
EngineExit ==
    /\ engine = "running"
    /\ \E c \in 0..MaxExitCode : exit_code' = c
    /\ engine' = "exited"
    /\ UNCHANGED <<pc, dur_out, total_duration, acodec, vcodec, cmd, returncode,
                   written, nread, done_seconds, pct, last_pct, emitted,
                   probed, fault, result>>

\* One iteration of  for line in proc.stdout
ReadLine ==
    /\ pc = "loop"
    /\ nread < Len(written)
    /\ LET it == Iteration(written[nread + 1], total_duration, last_pct)
       IN  /\ nread' = nread + 1
           /\ done_seconds' = IF it.secs # NoNumber THEN it.secs ELSE done_seconds
           /\ pct' = IF it.kind = "ok" THEN it.pct ELSE pct
           /\ IF it.kind \in {"ValueError", "ZeroDivisionError"}
              THEN Raise(it.kind) /\ UNCHANGED <<last_pct, emitted>>
              ELSE /\ UNCHANGED <<pc, fault>>
                   /\ IF it.update
                      THEN /\ emitted' = Append(emitted,
                                           [pct |-> it.pct, whole |-> it.whole,
                                            line |-> nread + 1])
                           /\ last_pct' = it.whole
                      ELSE UNCHANGED <<last_pct, emitted>>
    /\ UNCHANGED <<dur_out, total_duration, acodec, vcodec, cmd, engine,
                   exit_code, returncode, written, probed, result>>

\* The for loop ends: the pipe is empty and its writing end is closed
ReadEOF ==
    /\ pc = "loop"
    /\ nread = Len(written)
    /\ engine = "exited"
    /\ pc' = "wait"
    /\ UNCHANGED <<dur_out, total_duration, acodec, vcodec, cmd, engine,
                   exit_code, returncode, written, nread, done_seconds, pct,
                   last_pct, emitted, probed, fault, result>>

\* proc.wait()
Wait ==
    /\ pc = "wait"
    /\ engine = "exited"
    /\ returncode' = exit_code
    /\ pc' = "report"
    /\ UNCHANGED <<dur_out, total_duration, acodec, vcodec, cmd, engine,
                   exit_code, written, nread, done_seconds, pct, last_pct,
                   emitted, probed, fault, result>>

\* status = ... ; print(status, dst) ; sys.exit(proc.returncode)
Status(code) == IF code = 0 THEN "Completed" ELSE "Failed"

Report ==
    /\ pc = "report"
    /\ result' = [status |-> Status(returncode), path |-> DstPath,
                  exitCode |-> returncode]
    /\ pc' = "done"
    /\ UNCHANGED <<dur_out, total_duration, acodec, vcodec, cmd, engine,
                   exit_code, returncode, written, nread, done_seconds, pct,
                   last_pct, emitted, probed, fault>>

Next ==
    \/ GetDuration
    \/ DetectAudio(AudioOutputs)
    \/ DetectVideo(VideoOutputs)
    \/ Build
    \/ Popen
    \/ EngineWrite
    \/ EngineExit
    \/ ReadLine
    \/ ReadEOF
    \/ Wait
    \/ Report

Spec == Init /\ [][Next]_vars

(***************************************************************************)
(* The plan builder on every codec name: the script after a successful     *)
(* duration query, with the codec queries answering any of the names.      *)
(***************************************************************************)
DtsAnyCase == {<<a, b, c>> : a \in {"d", "D"}, b \in {"t", "T"}, c \in {"s", "S"}}
HevcAnyCase ==
    {<<a, b, c, d>> : a \in {"h", "H"}, b \in {"e", "E"},
                      c \in {"v", "V"}, d \in {"c", "C"}}
H265AnyCase == {<<a, "2", "6", "5">> : a \in {"h", "H"}}

AudioNames ==
    DtsAnyCase \cup {<<>>, <<"a", "a", "c">>, <<"A", "C", "3">>, <<"d", "t">>,
                     <<"d", "t", "s", "x">>, <<"x", "d", "t", "s">>,
                     <<"d", "t", "5">>, <<"s", "t", "d">>}
VideoNames ==
    HevcAnyCase \cup H265AnyCase
        \cup {<<>>, <<"h", "2", "6", "4">>, <<"H", "2", "6", "4">>,
              <<"h", "e", "v">>, <<"h", "e", "v", "c", "1">>,
              <<"h", "2", "6">>, <<"v", "p", "9">>, <<"h", "v", "c", "1">>}

PlanAudioOutputs == {a \o <<"\n">> : a \in AudioNames}
PlanVideoOutputs == {v \o <<"\n">> : v \in VideoNames}

InitPlan ==
    /\ pc = "detect_audio"
    /\ dur_out = [ok |-> TRUE, text |-> <<"1", "0">> \o Micro \o <<"\n">>]
    /\ total_duration = get_duration(dur_out.text).value
    /\ acodec = <<>>
    /\ vcodec = <<>>
    /\ cmd = <<>>
    /\ engine = "none"
    /\ exit_code = NoCode
    /\ returncode = NoCode
    /\ written = <<>>
    /\ nread = 0
    /\ done_seconds = NoNumber
    /\ pct = NoNumber
    /\ last_pct = -1
    /\ emitted = <<>>
    /\ probed = {"duration"}
    /\ fault = "none"
    /\ result = NoResult

NextPlan ==
    \/ DetectAudio(PlanAudioOutputs)
    \/ DetectVideo(PlanVideoOutputs)
    \/ Build

SpecPlan == InitPlan /\ [][NextPlan]_vars

(***************************************************************************)
(* Vocabulary of the properties.                                           *)
(***************************************************************************)
\* option immediately followed by value in an argv list
HasPair(argv, option, value) ==
    \E i \in 1..(Len(argv) - 1) : argv[i] = option /\ argv[i + 1] = value

Count(argv, word) == Cardinality({i \in 1..Len(argv) : argv[i] = word})

Built == cmd # <<>>
Launched == engine # "none"
RunEnded == pc \in {"done", "crashed"}
Ten == FloatOfInt(10)

\* The truncated percents of the updates printed so far
EmittedInts == [i \in 1..Len(emitted) |-> emitted[i].whole]

\* Elapsed on each line the engine can write
ElapsedOfLine == [l \in EngineLines |-> Elapsed(l)]

\* The values done_seconds can have in a run, and their order
ElapsedValues ==
    {ElapsedOfLine[l].secs : l \in {k \in EngineLines : ElapsedOfLine[k].kind = "ok"}}
SecsLE == [a \in ElapsedValues, b \in ElapsedValues |-> FCmp(a, b) <= 0]

\* The values of done_seconds on the lines taken so far, in order
RECURSIVE ElapsedOf(_)
ElapsedOf(lines) ==
    IF lines = <<>> THEN <<>>
    ELSE LET e == ElapsedOfLine[lines[Len(lines)]]
             front == ElapsedOf(SubSeq(lines, 1, Len(lines) - 1))
         IN  IF e.kind = "ok" THEN Append(front, e.secs) ELSE front

ElapsedNonDecreasing ==
    LET es == ElapsedOf(SubSeq(written, 1, nread))
    IN  \A i \in 1..(Len(es) - 1) : SecsLE[es[i], es[i + 1]]

NoUpdateAt(i) == \A k \in 1..Len(emitted) : emitted[k].line # i

\* Whether |pd - e100| * 2^51 <= e100
BClose(pd, e100) ==
    IF BCmp(pd, e100) >= 0
    THEN BCmp(BShl(BSub(pd, e100), 51), e100) <= 0
    ELSE BCmp(BShl(BSub(e100, pd), 51), e100) <= 0

\* Whether p is clamp(E / D * 100, 0, 100) as floats can have it: within
\* [0, 100], exactly 100 for E > D, and for E <= D the exact quotient
\* E / D * 100 up to the rounding of the division and of the product, that
\* is |p * D - 100 * E| * 2^51 <= 100 * E
IsClamp(p, E, D) ==
    LET lo == IF p.e + D.e < E.e THEN p.e + D.e ELSE E.e
    IN  /\ D.m # <<>>
        /\ FCmp(p, Hundred) <= 0
        /\ FCmp(E, D) > 0 => p = Hundred
        /\ FCmp(E, D) <= 0 =>
               BClose(BShl(BMul(p.m, D.m), p.e + D.e - lo),
                      BShl(BMulSmall(E.m, 100), E.e - lo))

\* pct, done_seconds and total_duration wherever the loop computes a percent
PercentCases ==
    {[pct |-> LoopBodyOf[x[1], x[2]].pct, secs |-> LoopBodyOf[x[1], x[2]].secs,
      total |-> x[2]] :
        x \in {y \in EngineLines \X TotalDurations :
                   LoopBodyOf[y[1], y[2]].kind = "ok"}}

ClampHolds == [x \in PercentCases |-> IsClamp(x.pct, x.secs, x.total)]

(***************************************************************************)
(* Properties.                                                             *)
(***************************************************************************)

\* C1: whenever the engine was launched and has terminated with exit code c
\* and the run has ended, the run reported exactly c, with status Failed
\* for a non-zero c, and no exception ended the run.
C1_ExitCodeForwarded ==
    (Launched /\ engine = "exited" /\ RunEnded) =>
        /\ fault = "none"
        /\ result.exitCode = exit_code
        /\ result.status = (IF exit_code = 0 THEN "Completed" ELSE "Failed")

C3_DrainThenWaitThenOneResult ==
    /\ pc \in {"wait", "report", "done"} =>
           engine = "exited" /\ nread = Len(written)
    /\ result # NoResult =>
           pc = "done" /\ nread = Len(written) /\ \A k \in 1..Len(emitted) :
                                                     emitted[k].line <= nread
    /\ (Launched /\ RunEnded) => result # NoResult

\* The part of C3 about the order of draining, waiting and reporting alone.
DrainBeforeWait ==
    /\ pc \in {"wait", "report", "done"} =>
           engine = "exited" /\ nread = Len(written)
    /\ result # NoResult => pc = "done" /\ nread = Len(written)
    /\ pc = "done" => result # NoResult

\* C4: the built command transcodes audio to ALAC exactly when the audio
\* codec is "dts" in any case, copies audio otherwise (the empty name
\* included), and copies video whatever the audio codec is.
C4_AudioPolicy ==
    Built =>
        /\ HasPair(cmd, "-c:a", "alac") <=> acodec \in DtsAnyCase
        /\ HasPair(cmd, "-c:a", "copy") <=> acodec \notin DtsAnyCase
        /\ Count(cmd, "-c:a") = 1
        /\ HasPair(cmd, "-c:v", "copy")
        /\ Count(cmd, "-c:v") = 1

\* A command built for the audio codec "DtS" transcodes to ALAC.
C4_Witness ==
    Built /\ acodec = <<"D", "t", "S">> /\ HasPair(cmd, "-c:a", "alac")

\* C5: the built command carries -tag:v hvc1 exactly when the video codec
\* is "hevc" or "h265" in any case, and no -tag:v at all otherwise (the
\* empty name included), whatever the audio codec is.
C5_TagPolicy ==
    Built =>
        /\ HasPair(cmd, "-tag:v", "hvc1") <=> vcodec \in HevcAnyCase \cup H265AnyCase
        /\ Count(cmd, "-tag:v") = (IF vcodec \in HevcAnyCase \cup H265AnyCase
                                   THEN 1 ELSE 0)
        /\ Count(cmd, "hvc1") = Count(cmd, "-tag:v")

\* A command built for the video codec "H265" and an audio codec that is
\* copied carries the tag.
C5_Witness ==
    /\ Built
    /\ vcodec = <<"H", "2", "6", "5">>
    /\ acodec = <<"a", "a", "c">>
    /\ HasPair(cmd, "-tag:v", "hvc1")

\* C6: with total duration D > 0 and elapsed time E of the line, pct is
\* E/D*100 (as floats round it) when E <= D, exactly 100 when E > D, and
\* always within [0, 100].
C6_PercentClamped ==
    pct # NoNumber =>
        LET x == [pct |-> pct, secs |-> done_seconds, total |-> total_duration]
        IN  x \in PercentCases /\ ClampHolds[x]

\* The loop has computed a percent for an elapsed time beyond the duration,
\* and one for an elapsed time within it.
C6_Witness ==
    /\ total_duration = Ten
    /\ nread = 2
    /\ written[1] = LineHms5
    /\ written[2] = LineHms12
    /\ emitted[1].whole = 50
    /\ pct = Hundred

\* C7: with a total duration of 0 the loop never divides by it.
C7_ZeroDurationNeverDivides ==
    total_duration = FZero => fault # "ZeroDivisionError"

\* C8: an unparsable or failed duration query ends the run before a command
\* is built or the engine launched, and the engine is launched only after
\* the three queries have returned.
UnparsableDurations == {<<"N", "/", "A", "\n">>, <<>>}

C8_ProbeBeforeLaunch ==
    /\ (pc # "get_duration" /\ (~dur_out.ok \/ dur_out.text \in UnparsableDurations)) =>
           /\ pc = "crashed"
           /\ fault = (IF dur_out.ok THEN "ValueError" ELSE "CalledProcessError")
           /\ ~Built /\ ~Launched /\ probed = {}
    /\ Built => probed = {"duration", "audio", "video"}
    /\ Launched => Built /\ probed = {"duration", "audio", "video"}

\* The duration query answered N/A and the run ended there.
C8_Witness ==
    /\ dur_out = [ok |-> TRUE, text |-> <<"N", "/", "A", "\n">>]
    /\ pc = "crashed"
    /\ fault = "ValueError"
    /\ ~Launched

\* C9: no line of the engine's output makes the loop raise: once the engine
\* is launched, the run is never ended by a ValueError.
C9_UninterpretableLinesDiscarded ==
    Launched => fault # "ValueError"

\* C10: for every instant and duration D > 0 the microsecond line and the
\* timestamp line give the same percent; when both are read one after the
\* other the second prints nothing; and a line with both keys is read by
\* its microsecond value.  The comparisons of the two encodings depend on
\* the state only through total_duration, and are made where the command
\* is about to be launched.
SameInstantPairs ==
    UNION {{<<FormatUs(t) \o <<"\n">>, FormatHms(t) \o <<"\n">>>>,
            <<FormatHms(t) \o <<"\n">>, FormatUs(t) \o <<"\n">>>>} : t \in Instants}

SameInstantPair(a, b) == <<a, b>> \in SameInstantPairs

C10_EncodingsAgree ==
    /\ pc = "popen" =>
           \A t \in Instants :
               LET u == Elapsed(FormatUs(t) \o <<"\n">>)
                   h == Elapsed(FormatHms(t) \o <<"\n">>)
               IN  /\ u.kind = "ok" /\ h.kind = "ok"
                   /\ total_duration # FZero =>
                          Percent(u.secs, total_duration)
                              = Percent(h.secs, total_duration)
    /\ \A i \in 2..nread :
           (SameInstantPair(written[i - 1], written[i]) /\ total_duration # FZero)
               => NoUpdateAt(i)
    /\ pc = "popen" =>
           \A t1 \in Instants, t2 \in Instants :
               LET u  == Elapsed(FormatUs(t1) \o <<"\n">>)
                   b1 == Elapsed(FormatHms(t2) \o <<" ">> \o FormatUs(t1) \o <<"\n">>)
                   b2 == Elapsed(FormatUs(t1) \o <<" ">> \o FormatHms(t2) \o <<"\n">>)
               IN  b1 = u /\ b2 = u

=============================================================================
